---- MODULE Spec2Model ----
(***************************************************************************)
(* Model of the tagging action (src/index.ts): a GitHub Action that, on a  *)
(* pull-request event, classifies the head branch, reads the repository's  *)
(* tags, resolves the next (pre-)release tag with the semver library and   *)
(* creates the release.                                                    *)
(*                                                                         *)
(* Strings are sequences of one-character strings, so that prefix tests,   *)
(* substring tests, String.replace and the parsing and formatting done by  *)
(* semver are computed on the characters.  The JavaScript value null is    *)
(* the one-element sequence <<"null">>, which is no string of characters.  *)
(***************************************************************************)
EXTENDS Integers, Sequences, FiniteSets, TLC

VARIABLES repoTags, releases, runs

vars == <<repoTags, releases, runs>>

null == <<"null">>

(***************************************************************************)
(* Characters and strings.                                                 *)
(***************************************************************************)
Digits == {"0", "1", "2", "3", "4", "5", "6", "7", "8", "9"}

Letters ==
  {"a", "b", "c", "d", "e", "f", "g", "h", "i", "j", "k", "l", "m",
   "n", "o", "p", "q", "r", "s", "t", "u", "v", "w", "x", "y", "z",
   "A", "B", "C", "D", "E", "F", "G", "H", "I", "J", "K", "L", "M",
   "N", "O", "P", "Q", "R", "S", "T", "U", "V", "W", "X", "Y", "Z"}

\* String.prototype.startsWith
StartsWith(s, pre) ==
  /\ Len(pre) <= Len(s)
  /\ SubSeq(s, 1, Len(pre)) = pre

\* String.prototype.indexOf, 1-based; 0 when sub does not occur in s
IndexOf(s, sub) ==
  LET hits == {i \in 1..(Len(s) - Len(sub) + 1) :
                 SubSeq(s, i, i + Len(sub) - 1) = sub}
  IN IF hits = {} THEN 0 ELSE CHOOSE i \in hits : \A j \in hits : i <= j

\* String.prototype.includes
Includes(s, sub) == Len(sub) = 0 \/ IndexOf(s, sub) > 0

\* String.prototype.replace with a string pattern: first occurrence only
ReplaceFirst(s, from, to) ==
  LET i == IndexOf(s, from)
  IN IF i = 0 THEN s
     ELSE SubSeq(s, 1, i - 1) \o to \o SubSeq(s, i + Len(from), Len(s))

\* String.prototype.split on a one-character separator
RECURSIVE Split(_, _)
Split(s, sep) ==
  LET i == IndexOf(s, <<sep>>)
  IN IF i = 0 THEN <<s>>
     ELSE <<SubSeq(s, 1, i - 1)>> \o Split(SubSeq(s, i + 1, Len(s)), sep)

\* Array.prototype.join
RECURSIVE Join(_, _)
Join(parts, sep) ==
  IF Len(parts) = 0 THEN <<>>
  ELSE IF Len(parts) = 1 THEN parts[1]
  ELSE parts[1] \o sep \o Join(Tail(parts), sep)

DigitVal(c) ==
  CASE c = "0" -> 0 [] c = "1" -> 1 [] c = "2" -> 2 [] c = "3" -> 3
    [] c = "4" -> 4 [] c = "5" -> 5 [] c = "6" -> 6 [] c = "7" -> 7
    [] c = "8" -> 8 [] c = "9" -> 9

DigitChar(d) ==
  CASE d = 0 -> "0" [] d = 1 -> "1" [] d = 2 -> "2" [] d = 3 -> "3"
    [] d = 4 -> "4" [] d = 5 -> "5" [] d = 6 -> "6" [] d = 7 -> "7"
    [] d = 8 -> "8" [] d = 9 -> "9"

\* unary plus on a string of digits
RECURSIVE ToNumber(_)
ToNumber(s) ==
  IF Len(s) = 0 THEN 0
  ELSE 10 * ToNumber(SubSeq(s, 1, Len(s) - 1)) + DigitVal(s[Len(s)])

\* the decimal text of a non-negative integer, as in a template literal
RECURSIVE NumToString(_)
NumToString(n) ==
  IF n < 10 THEN <<DigitChar(n)>>
  ELSE NumToString(n \div 10) \o <<DigitChar(n % 10)>>

(***************************************************************************)
(* The semver library (strict mode), as used by run(): the grammar of a    *)
(* version, parse, format, valid, prerelease and inc.  inc takes the       *)
(* identifier as it is given and formats it into the version text; numbers *)
(* stay far below Number.MAX_SAFE_INTEGER.                                 *)
(***************************************************************************)
MAX_LENGTH == 256

AllIn(s, set) == \A i \in 1..Len(s) : s[i] \in set

\* NUMERICIDENTIFIER: 0|[1-9]\d*
IsNumericIdentifier(s) ==
  /\ Len(s) > 0
  /\ AllIn(s, Digits)
  /\ (Len(s) > 1 => s[1] /= "0")

\* NONNUMERICIDENTIFIER: \d*[a-zA-Z-][a-zA-Z0-9-]*
IsNonNumericIdentifier(s) ==
  /\ AllIn(s, Digits \cup Letters \cup {"-"})
  /\ \E i \in 1..Len(s) : s[i] \notin Digits

\* PRERELEASEIDENTIFIER
IsPrereleaseIdentifier(s) ==
  IsNumericIdentifier(s) \/ IsNonNumericIdentifier(s)

\* BUILDIDENTIFIER: [0-9A-Za-z-]+
IsBuildIdentifier(s) ==
  Len(s) > 0 /\ AllIn(s, Digits \cup Letters \cup {"-"})

\* an element of SemVer.prerelease: a number or a string
NumId(n) == [isNum |-> TRUE, n |-> n, s |-> <<>>]

StrId(s) == [isNum |-> FALSE, n |-> 0, s |-> s]

\* prerelease.split('.').map(id => /^[0-9]+$/.test(id) ? +id : id)
PrereleaseId(s) == IF AllIn(s, Digits) THEN NumId(ToNumber(s)) ELSE StrId(s)

IdToString(id) == IF id.isNum THEN NumToString(id.n) ELSE id.s

\* SemVer.format(): major.minor.patch, then '-' and the prerelease
\* identifiers joined by '.', when there are any
Format(v) ==
  LET core == NumToString(v.major) \o <<".">> \o NumToString(v.minor)
                \o <<".">> \o NumToString(v.patch)
      ids == [i \in 1..Len(v.prerelease) |-> IdToString(v.prerelease[i])]
  IN IF Len(v.prerelease) = 0 THEN core
     ELSE core \o <<"-">> \o Join(ids, <<".">>)

\* The pieces of a version text that the FULL regular expression
\*   ^v?MAJOR.MINOR.PATCH(-PRERELEASE)?(+BUILD)?$
\* captures: the first '+' starts the build, the first '-' before it
\* starts the prerelease
Pieces(version) ==
  LET s == IF Len(version) > 0 /\ version[1] = "v" THEN Tail(version)
           ELSE version
      plus == IndexOf(s, <<"+">>)
      noBuild == IF plus = 0 THEN s ELSE SubSeq(s, 1, plus - 1)
      dash == IndexOf(noBuild, <<"-">>)
  IN [hasPre |-> dash /= 0,
      hasBuild |-> plus /= 0,
      nums |-> Split(IF dash = 0 THEN noBuild
                     ELSE SubSeq(noBuild, 1, dash - 1), "."),
      preIds |-> Split(IF dash = 0 THEN <<>>
                       ELSE SubSeq(noBuild, dash + 1, Len(noBuild)), "."),
      buildIds |-> Split(IF plus = 0 THEN <<>>
                         ELSE SubSeq(s, plus + 1, Len(s)), ".")]

\* whether new SemVer(version) succeeds: the text is not too long and
\* matches the FULL regular expression
Matches(version) ==
  LET m == Pieces(version)
  IN /\ Len(version) <= MAX_LENGTH
     /\ Len(m.nums) = 3
     /\ \A i \in 1..3 : IsNumericIdentifier(m.nums[i])
     /\ m.hasPre =>
          \A i \in 1..Len(m.preIds) : IsPrereleaseIdentifier(m.preIds[i])
     /\ m.hasBuild =>
          \A i \in 1..Len(m.buildIds) : IsBuildIdentifier(m.buildIds[i])

\* new SemVer(version), for a text that matches
Parse(version) ==
  LET m == Pieces(version)
  IN [major |-> ToNumber(m.nums[1]),
      minor |-> ToNumber(m.nums[2]),
      patch |-> ToNumber(m.nums[3]),
      prerelease |-> IF ~m.hasPre THEN <<>>
                     ELSE [i \in 1..Len(m.preIds) |->
                             PrereleaseId(m.preIds[i])]]

\* semver.valid(version): the formatted version, or null
valid(version) ==
  IF Matches(version) THEN Format(Parse(version)) ELSE null

\* semver.prerelease(version): the prerelease identifiers; the empty
\* sequence stands for null (the library returns no empty array)
prerelease(version) ==
  IF Matches(version) THEN Parse(version).prerelease ELSE <<>>

\* SemVer.inc('pre', identifier)
IncPre(v, identifier) ==
  LET p == v.prerelease
      nums == {i \in 1..Len(p) : p[i].isNum}
      last == CHOOSE i \in nums : \A j \in nums : j <= i
      bumped == IF Len(p) = 0 THEN <<NumId(0)>>
                ELSE IF nums = {} THEN Append(p, NumId(0))
                ELSE [p EXCEPT ![last] = NumId(p[last].n + 1)]
      fresh == <<StrId(identifier), NumId(0)>>
      named == IF identifier = null THEN bumped
               ELSE IF bumped[1] = StrId(identifier)
                 THEN IF Len(bumped) < 2 \/ ~bumped[2].isNum THEN fresh
                      ELSE bumped
               ELSE fresh
  IN [v EXCEPT !.prerelease = named]

\* SemVer.inc('patch')
IncPatch(v) ==
  [v EXCEPT !.patch = IF Len(v.prerelease) = 0 THEN @ + 1 ELSE @,
            !.prerelease = <<>>]

\* SemVer.inc('minor')
IncMinor(v) ==
  [v EXCEPT !.minor = IF v.patch /= 0 \/ Len(v.prerelease) = 0
                      THEN @ + 1 ELSE @,
            !.patch = 0,
            !.prerelease = <<>>]

IncMajor_noReset(v) == [v EXCEPT !.major = @ + 1, !.prerelease = <<>>]

\* SemVer.inc('major')
IncMajor(v) ==
  [v EXCEPT !.major = IF v.minor /= 0 \/ v.patch /= 0
                         \/ Len(v.prerelease) = 0
                      THEN @ + 1 ELSE @,
            !.minor = 0,
            !.patch = 0,
            !.prerelease = <<>>]

ReleaseTypes ==
  {"major", "minor", "patch", "premajor", "preminor", "prepatch",
   "prerelease"}

\* SemVer.inc(release, identifier), for a release type of ReleaseTypes
SemVerInc(v, release, identifier) ==
  CASE release = "major" -> IncMajor(v)
    [] release = "minor" -> IncMinor(v)
    [] release = "patch" -> IncPatch(v)
    [] release = "premajor" ->
         IncPre([v EXCEPT !.prerelease = <<>>, !.patch = 0, !.minor = 0,
                          !.major = @ + 1], identifier)
    [] release = "preminor" ->
         IncPre([v EXCEPT !.prerelease = <<>>, !.patch = 0,
                          !.minor = @ + 1], identifier)
    [] release = "prepatch" ->
         IncPre(IncPatch([v EXCEPT !.prerelease = <<>>]), identifier)
    [] release = "prerelease" ->
         IncPre(IF Len(v.prerelease) = 0 THEN IncPatch(v) ELSE v, identifier)

\* semver.inc(version, release, identifier): the incremented version's
\* text, or null when the constructor or SemVer.inc throws (version does
\* not parse, release is no release type)
inc(version, release, identifier) ==
  IF Matches(version) /\ release \in ReleaseTypes
  THEN Format(SemVerInc(Parse(version), release, identifier))
  ELSE null

(***************************************************************************)
(* String literals of src/index.ts and of the events the action receives.  *)
(***************************************************************************)
fixSlash == <<"f", "i", "x", "/">>

featureSlash == <<"f", "e", "a", "t", "u", "r", "e", "/">>

releaseSlash == <<"r", "e", "l", "e", "a", "s", "e", "/">>

choreSlash == <<"c", "h", "o", "r", "e", "/">>

hashTag == <<"#", "t", "a", "g">>

master == <<"m", "a", "s", "t", "e", "r">>

main == <<"m", "a", "i", "n">>

develop == <<"d", "e", "v", "e", "l", "o", "p">>

zeroVersion == <<"0", ".", "0", ".", "0">>

rcDash == <<"r", "c", "-">>

\* JavaScript undefined (the result of Array.prototype.find on no match)
\* and a null object reference
undefined == [undefined |-> TRUE]

nullPr == [null |-> TRUE]

(***************************************************************************)
(* Branch classification.                                                  *)
(***************************************************************************)
\* a pattern /^prefix.*/ is kept as its literal prefix
branchTypes ==
  <<[pattern |-> fixSlash, bump |-> "patch", label |-> "fix"],
    [pattern |-> featureSlash, bump |-> "minor", label |-> "feature"],
    [pattern |-> releaseSlash, bump |-> "major", label |-> "release"],
    [pattern |-> choreSlash, bump |-> "chore", label |-> "chore"]>>

PatternTest_unanchored(pattern, branch) == Includes(branch, pattern)

\* RegExp.prototype.test for /^prefix.*/
PatternTest(pattern, branch) == StartsWith(branch, pattern)

FindBranchType_default(branch) ==
  LET hits == {i \in 1..Len(branchTypes) :
                 PatternTest(branchTypes[i].pattern, branch)}
  IN IF hits = {} THEN branchTypes[1]
     ELSE branchTypes[CHOOSE i \in hits : \A j \in hits : i <= j]

\* branchTypes.find(branchPat => branchPat.pattern.test(branch))
FindBranchType(branch) ==
  LET hits == {i \in 1..Len(branchTypes) :
                 PatternTest(branchTypes[i].pattern, branch)}
  IN IF hits = {} THEN undefined
     ELSE branchTypes[CHOOSE i \in hits : \A j \in hits : i <= j]

(***************************************************************************)
(* Version resolution (the code between listTags and createRelease).       *)
(***************************************************************************)
per_page == 100

\* the template literal `${prefix}${pattern.bump}`
BumpName(prefix, bump) ==
  IF prefix = "" THEN bump
  ELSE CASE bump = "patch" -> "prepatch"
         [] bump = "minor" -> "preminor"
         [] bump = "major" -> "premajor"
         [] bump = "chore" -> "prechore"

IsFullRelease_anyValid(tag) == Len(prerelease(tag.name)) = 0

\* the filter of fullReleases
IsFullRelease(tag) ==
  Len(prerelease(tag.name)) = 0 /\ valid(tag.name) = tag.name

\* the find of firstValid
IsValidTag(tag) == valid(tag.name) /= null

\* Array.prototype.find: the first element that passes, or undefined
FirstOf(seq) == IF Len(seq) = 0 THEN undefined ELSE seq[1]

\* lastTag: the name of the first full release, or '0.0.0'
LastTag(tags) ==
  LET fullReleases == SelectSeq(tags, IsFullRelease)
      firstValid == FirstOf(SelectSeq(fullReleases, IsValidTag))
  IN IF firstValid /= undefined THEN firstValid.name ELSE zeroVersion

RcName_replaceAll(branch) ==
  rcDash \o Join(Split(branch, "/"), <<"-">>)

\* rcName: `rc-${branch.replace('/', '-')}`
RcName(branch) == rcDash \o ReplaceFirst(branch, <<"/">>, <<"-">>)

\* rcs: the tags whose name includes rcName
Rcs(tags, rcName) ==
  SelectSeq(tags, LAMBDA tag : Includes(tag.name, rcName))

\* newTag
NewTag(lastTag, rcName, rcs, preRelease, pattern) ==
  LET bump == BumpName(IF preRelease THEN "pre" ELSE "", pattern.bump)
  IN IF preRelease
     THEN IF Len(rcs) /= 0
          THEN inc(rcs[1].name, "prerelease", null)
          ELSE inc(lastTag, bump, rcName)
     ELSE inc(lastTag, bump, null)

(***************************************************************************)
(* Bounds and inputs.                                                      *)
(***************************************************************************)
\* releases the release sink accepts in one behaviour
MaxReleases == 2

\* tags in the repository before the first run (SpecResolve)
MaxTags == 3

Procs == {1, 2}

\* the workflow runs that Spec starts: one at a time
SeqProcs == {1}

PrNumbers == {1, 2}

featureX == featureSlash \o <<"x">>

fixBug == fixSlash \o <<"b", "u", "g">>

releaseV1 == releaseSlash \o <<"v", "1">>

choreDeps == choreSlash \o <<"d", "e", "p", "s">>

docsY == <<"d", "o", "c", "s", "/", "y">>

Branches == {featureX, choreDeps, docsY}

BaseRefs == {master, main, develop}

\* what pulls.get returns and what a pull_request payload carries
PullRequests(heads, bases, drafts, numbers) ==
  [number : numbers,
   title : {"title"},
   body : {"body"},
   head : [ref : heads],
   base : [ref : bases],
   draft : drafts,
   merged : BOOLEAN]

CommentBodies == {hashTag, <<"o", "k", " ">> \o hashTag, <<"o", "k">>}

\* Github.context: the event name and its payload
IssueCommentEvents ==
  [eventName : {"issue_comment"},
   action : {"created", "deleted"},
   body : CommentBodies,
   number : PrNumbers,
   pull_request : {nullPr}]

PullRequestEvents(prs) ==
  {[eventName |-> "pull_request", action |-> a, body |-> <<>>,
    number |-> pr.number, pull_request |-> pr] :
     a \in {"opened", "closed", "edited"}, pr \in prs}

OtherEvents ==
  {[eventName |-> "push", action |-> "", body |-> <<>>, number |-> 0,
    pull_request |-> nullPr]}

AllPullRequests == PullRequests(Branches, BaseRefs, BOOLEAN, PrNumbers)

Events ==
  IssueCommentEvents \cup PullRequestEvents(AllPullRequests) \cup OtherEvents

noEvent ==
  [eventName |-> "", action |-> "", body |-> <<>>, number |-> 0,
   pull_request |-> nullPr]

(***************************************************************************)
(* One run of the action.  pc is the collaborator call the run awaits.     *)
(***************************************************************************)
IdleRun ==
  [pc |-> "idle", event |-> noEvent, pr |-> nullPr, preRelease |-> FALSE,
   pattern |-> undefined, tags |-> <<>>, lastTag |-> <<>>,
   rcName |-> <<>>, newTag |-> <<>>,
   calls |-> <<>>, failed |-> <<>>, outputs |-> <<>>]

Awaiting ==
  {"pulls.get", "addLabels", "openComment", "listTags", "createRelease",
   "resultComment"}

Call(r, pc, call) == [r EXCEPT !.pc = pc, !.calls = Append(@, call)]

Return(r) == [r EXCEPT !.pc = "done"]

NotToMaster_negated(pr) == pr.base.ref = master \/ pr.base.ref = main

\* line 67: the pull request is not to master or main
NotToMaster(pr) == pr.base.ref /= master /\ pr.base.ref /= main

IsChore_typo(pattern) == pattern.bump = "chores"

\* line 88: the branch type is chore
IsChore(pattern) == pattern.bump = "chore"

Validate_draftFails(r, pr) ==
  LET pattern == FindBranchType(pr.head.ref)
      r1 == [r EXCEPT !.pr = pr]
  IN IF pr = nullPr THEN Return(r1)
     ELSE IF NotToMaster(pr) THEN Return(r1)
     ELSE IF pr.draft
       THEN Return([r1 EXCEPT !.failed = Append(@, "PR is a draft")])
     ELSE IF pattern = undefined
       THEN Return([r1 EXCEPT !.preRelease = ~pr.merged])
     ELSE IF IsChore(pattern)
       THEN Return([r1 EXCEPT !.preRelease = ~pr.merged,
                              !.pattern = pattern])
     ELSE Call([r1 EXCEPT !.preRelease = ~pr.merged, !.pattern = pattern],
               "listTags", [api |-> "listTags", per_page |-> per_page])

\* lines 62-97: the validations of pr, the classification of its head
\* branch and the call of listTags
Validate(r, pr) ==
  LET pattern == FindBranchType(pr.head.ref)
      r1 == [r EXCEPT !.pr = pr]
  IN IF pr = nullPr THEN Return(r1)
     ELSE IF NotToMaster(pr) THEN Return(r1)
     ELSE IF pr.draft THEN Return(r1)
     ELSE IF pattern = undefined
       THEN Return([r1 EXCEPT !.preRelease = ~pr.merged])
     ELSE IF IsChore(pattern)
       THEN Return([r1 EXCEPT !.preRelease = ~pr.merged,
                              !.pattern = pattern])
     ELSE Call([r1 EXCEPT !.preRelease = ~pr.merged, !.pattern = pattern],
               "listTags", [api |-> "listTags", per_page |-> per_page])

AddLabel_skipChore(r, pr) ==
  LET pattern == FindBranchType(pr.head.ref)
  IN IF pattern = undefined \/ IsChore(pattern)
     THEN Call(r, "openComment",
               [api |-> "createComment", issue_number |-> r.event.number,
                body |-> "Add a comment"])
     ELSE Call(r, "addLabels",
               [api |-> "addLabels", issue_number |-> pr.number,
                labels |-> <<pattern.label>>])

\* lines 152-165 and 47-53: addLabel up to its call of addLabels, or
\* through to the call of createComment when the branch has no pattern
AddLabel(r, pr) ==
  LET pattern == FindBranchType(pr.head.ref)
  IN IF pattern = undefined
     THEN Call(r, "openComment",
               [api |-> "createComment", issue_number |-> r.event.number,
                body |-> "Add a comment"])
     ELSE Call(r, "addLabels",
               [api |-> "addLabels", issue_number |-> pr.number,
                labels |-> <<pattern.label>>])

\* lines 27-61: the run up to its first collaborator call
Start(ev) ==
  LET r == [IdleRun EXCEPT !.event = ev]
  IN IF ev.eventName = "issue_comment"
     THEN IF ev.action = "created" /\ Includes(ev.body, hashTag)
          THEN Call(r, "pulls.get",
                    [api |-> "pulls.get", pull_number |-> ev.number])
          ELSE Validate(r, nullPr)
     ELSE IF ev.eventName = "pull_request"
     THEN IF ev.action = "opened" THEN AddLabel(r, ev.pull_request)
          ELSE IF ~(ev.action = "closed" /\ ev.pull_request.merged)
            THEN Return(r)
          ELSE Validate(r, ev.pull_request)
     ELSE Validate(r, nullPr)

\* the workflow starts the action for an event
Trigger(p, ev) ==
  /\ runs[p].pc = "idle"
  /\ runs' = [runs EXCEPT ![p] = Start(ev)]
  /\ UNCHANGED <<repoTags, releases>>

\* line 33-38: pulls.get answers with the pull request of the issue
PullsGetReturn(p, pr) ==
  /\ runs[p].pc = "pulls.get"
  /\ pr.number = runs[p].event.number
  /\ runs' = [runs EXCEPT ![p] = Validate(@, pr)]
  /\ UNCHANGED <<repoTags, releases>>

\* line 159-164 and 47-53: addLabels answers; createComment is called
AddLabelsReturn(p) ==
  /\ runs[p].pc = "addLabels"
  /\ runs' = [runs EXCEPT ![p] =
                Call(@, "openComment",
                     [api |-> "createComment",
                      issue_number |-> @.event.number,
                      body |-> "Add a comment"])]
  /\ UNCHANGED <<repoTags, releases>>

\* lines 53-54: createComment answers; the run returns
OpenCommentReturn(p) ==
  /\ runs[p].pc = "openComment"
  /\ runs' = [runs EXCEPT ![p] = Return(@)]
  /\ UNCHANGED <<repoTags, releases>>

\* the first page of the tag list
FirstPage(tags) ==
  SubSeq(tags, 1, IF Len(tags) < per_page THEN Len(tags) ELSE per_page)

ListTagsReturn_targetBase(p) ==
  /\ runs[p].pc = "listTags"
  /\ \E tags \in {FirstPage(repoTags)} :
     \E lastTag \in {LastTag(tags)} :
     \E rcName \in {RcName(runs[p].pr.head.ref)} :
     \E rcs \in {Rcs(tags, rcName)} :
     \E newTag \in {NewTag(lastTag, rcName, rcs, runs[p].preRelease,
                           runs[p].pattern)} :
       runs' = [runs EXCEPT ![p] =
                  Call([@ EXCEPT !.tags = tags, !.lastTag = lastTag,
                                 !.rcName = rcName, !.newTag = newTag],
                       "createRelease",
                       [api |-> "createRelease",
                        tag_name |-> newTag,
                        name |-> @.pr.title,
                        body |-> @.pr.body,
                        draft |-> FALSE,
                        prerelease |-> @.preRelease,
                        target_commitish |-> @.pr.base.ref])]
  /\ UNCHANGED <<repoTags, releases>>

\* lines 93-131: listTags answers; the new tag is resolved and
\* createRelease is called
ListTagsReturn(p) ==
  /\ runs[p].pc = "listTags"
  /\ \E tags \in {FirstPage(repoTags)} :
     \E lastTag \in {LastTag(tags)} :
     \E rcName \in {RcName(runs[p].pr.head.ref)} :
     \E rcs \in {Rcs(tags, rcName)} :
     \E newTag \in {NewTag(lastTag, rcName, rcs, runs[p].preRelease,
                           runs[p].pattern)} :
       runs' = [runs EXCEPT ![p] =
                  Call([@ EXCEPT !.tags = tags, !.lastTag = lastTag,
                                 !.rcName = rcName, !.newTag = newTag],
                       "createRelease",
                       [api |-> "createRelease",
                        tag_name |-> newTag,
                        name |-> @.pr.title,
                        body |-> @.pr.body,
                        draft |-> FALSE,
                        prerelease |-> @.preRelease,
                        target_commitish |->
                          IF @.preRelease THEN @.pr.head.ref
                          ELSE @.pr.base.ref])]
  /\ UNCHANGED <<repoTags, releases>>

\* the sequence s with e inserted so that it becomes element i
InsertAt(s, i, e) == SubSeq(s, 1, i - 1) \o <<e>> \o SubSeq(s, i, Len(s))

TagNames(tags) == {tags[i].name : i \in 1..Len(tags)}

AfterCreateRelease_ignoreStatus(r, status) ==
  Call([r EXCEPT !.outputs =
          <<[name |-> "new_tag", value |-> r.newTag],
            [name |-> "pre_release", value |-> r.preRelease]>>],
       "resultComment",
       [api |-> "createComment", issue_number |-> r.pr.number,
        body |-> <<IF r.preRelease THEN "Pre-release" ELSE "Release",
                   r.newTag>>])

\* lines 132-146: createRelease answers with a status; a failure is
\* reported, or the outputs are set and the result comment is posted
AfterCreateRelease(r, status) ==
  IF status /= 201 /\ r.pr.number > 0
  THEN Return([r EXCEPT !.failed = Append(@, "Failed to create release")])
  ELSE Call([r EXCEPT !.outputs =
               <<[name |-> "new_tag", value |-> r.newTag],
                 [name |-> "pre_release", value |-> r.preRelease]>>],
            "resultComment",
            [api |-> "createComment", issue_number |-> r.pr.number,
             body |-> <<IF r.preRelease THEN "Pre-release" ELSE "Release",
                        r.newTag>>])

\* The release sink creates the release (status 201) and, with it, the
\* tag when the repository has no tag of that name; the tag list shows
\* the new tag at a position the code does not control.  The sink
\* refuses a null tag name and a tag that already has a release.
CreateReleaseCreated(p) ==
  LET r == runs[p]
      call == r.calls[Len(r.calls)]
  IN /\ r.pc = "createRelease"
     /\ Len(releases) < MaxReleases
     /\ r.newTag /= null
     /\ \A i \in 1..Len(releases) : releases[i].tag_name /= r.newTag
     /\ releases' = Append(releases, call)
     /\ IF r.newTag \in TagNames(repoTags)
        THEN repoTags' = repoTags
        ELSE \E i \in 1..(Len(repoTags) + 1) :
               repoTags' = InsertAt(repoTags, i, [name |-> r.newTag])
     /\ runs' = [runs EXCEPT ![p] = AfterCreateRelease(r, 201)]

\* the release sink answers with a success status other than 201 and
\* creates nothing
CreateReleaseOther(p) ==
  /\ runs[p].pc = "createRelease"
  /\ runs' = [runs EXCEPT ![p] = AfterCreateRelease(@, 200)]
  /\ UNCHANGED <<repoTags, releases>>

\* line 146: the result comment is posted; the run ends
ResultCommentReturn(p) ==
  /\ runs[p].pc = "resultComment"
  /\ runs' = [runs EXCEPT ![p] = Return(@)]
  /\ UNCHANGED <<repoTags, releases>>

Reject_retry(p) ==
  /\ runs[p].pc \in Awaiting
  /\ runs' = [runs EXCEPT ![p] =
                [@ EXCEPT !.failed = Append(@, "error.message"),
                          !.calls = Append(@, @[Len(@)])]]
  /\ UNCHANGED <<repoTags, releases>>

\* lines 147-149: the awaited call rejects; the failure is reported
Reject(p) ==
  /\ runs[p].pc \in Awaiting
  /\ runs' = [runs EXCEPT ![p] =
                Return([@ EXCEPT !.failed = Append(@, "error.message")])]
  /\ UNCHANGED <<repoTags, releases>>

\* line 190: the process of a finished run ends
Exit(p) ==
  /\ runs[p].pc = "done"
  /\ runs' = [runs EXCEPT ![p] = IdleRun]
  /\ UNCHANGED <<repoTags, releases>>

Step(p, evs, prs) ==
  \/ \E ev \in evs : Trigger(p, ev)
  \/ \E pr \in prs : PullsGetReturn(p, pr)
  \/ AddLabelsReturn(p)
  \/ OpenCommentReturn(p)
  \/ ListTagsReturn(p)
  \/ CreateReleaseCreated(p)
  \/ CreateReleaseOther(p)
  \/ ResultCommentReturn(p)
  \/ Reject(p)
  \/ Exit(p)

(***************************************************************************)
(* Spec: runs for any events, one after the other, on a repository that    *)
(* starts with no tag or with one full release.                            *)
(***************************************************************************)
Tag(name) == [name |-> name]

v100 == <<"1", ".", "0", ".", "0">>

InitTagLists == {<<>>, <<Tag(v100)>>}

Init ==
  /\ repoTags \in InitTagLists
  /\ releases = <<>>
  /\ runs = [p \in Procs |-> IdleRun]

Next == \E p \in SeqProcs : Step(p, Events, AllPullRequests)

Spec == Init /\ [][Next]_vars

(***************************************************************************)
(* SpecResolve: one run for a '#tag' comment, from the answer of the       *)
(* pull-request lookup to the call of createRelease, for every pull        *)
(* request of ResolvePullRequests on every tag list of ResolveTagLists.    *)
(***************************************************************************)
hotfixX == <<"h", "o", "t">> \o fixSlash \o <<"x">>

featureXY == featureSlash \o <<"x", "y">>

featureXSlashY == featureSlash \o <<"x", "/", "y">>

ResolveBranches ==
  {fixBug, featureX, releaseV1, choreDeps, docsY, hotfixX, featureXY,
   featureXSlashY}

ResolvePullRequests ==
  PullRequests(ResolveBranches, {master}, {FALSE}, {1})

v123 == <<"1", ".", "2", ".", "3">>

rc200 == <<"2", ".", "0", ".", "0", "-", "r", "c", ".", "1">>

bogus == <<"b", "o", "g", "u", "s">>

vV200 == <<"v", "2", ".", "0", ".", "0">>

v0100 == <<"0", "1", ".", "0", ".", "0">>

rcFeatureX == rcDash \o <<"f", "e", "a", "t", "u", "r", "e", "-", "x">>

rcFixBug == rcDash \o <<"f", "i", "x", "-", "b", "u", "g">>

v130rcX0 == <<"1", ".", "3", ".", "0", "-">> \o rcFeatureX \o <<".", "0">>

v010rcXY0 ==
  <<"0", ".", "1", ".", "0", "-">> \o rcFeatureX \o <<"y", ".", "0">>

v300plusRcFix == <<"3", ".", "0", ".", "0", "+">> \o rcFixBug

TagPool ==
  {v123, rc200, bogus, vV200, v100, v0100, v130rcX0, v010rcXY0,
   rcFeatureX, v300plusRcFix}

\* the lists of at most n different tags (a repository has one tag of a name)
RECURSIVE TagLists(_)
TagLists(n) ==
  IF n = 0 THEN {<<>>}
  ELSE LET shorter == TagLists(n - 1)
       IN shorter \cup
          UNION {{Append(l, Tag(name)) : name \in TagPool \ TagNames(l)} :
                   l \in shorter}

ResolveTagLists == TagLists(MaxTags)

tagComment ==
  [eventName |-> "issue_comment", action |-> "created", body |-> hashTag,
   number |-> 1, pull_request |-> nullPr]

InitResolve ==
  /\ repoTags \in ResolveTagLists
  /\ releases = <<>>
  /\ runs = [p \in Procs |-> IF p = 1 THEN Start(tagComment) ELSE IdleRun]

NextResolve ==
  \/ \E pr \in ResolvePullRequests : PullsGetReturn(1, pr)
  \/ ListTagsReturn(1)

SpecResolve == InitResolve /\ [][NextResolve]_vars

(***************************************************************************)
(* SpecConc: two runs of the action at the same time, run 1 for the pull   *)
(* request of feature/x and run 2 for the pull request of feature/z or of  *)
(* fix/bug, each for a '#tag' comment or for the merge of its pull         *)
(* request; the steps of the two runs interleave in every way.             *)
(***************************************************************************)
featureZ == featureSlash \o <<"z">>

ConcBranches(p) == IF p = 1 THEN {featureX} ELSE {featureZ, fixBug}

ConcPullRequests(p) == PullRequests(ConcBranches(p), {master}, {FALSE}, {p})

ConcEvents(p) ==
  {[eventName |-> "issue_comment", action |-> "created", body |-> hashTag,
    number |-> p, pull_request |-> nullPr]}
  \cup {[eventName |-> "pull_request", action |-> "closed", body |-> <<>>,
         number |-> pr.number, pull_request |-> pr] :
           pr \in {q \in ConcPullRequests(p) : q.merged}}

\* a run that has not started yet: a process runs the action once
NotStarted(p) == runs[p] = IdleRun

\* the workflow starts the one run of process p
TriggerOnce(p, ev) == NotStarted(p) /\ Trigger(p, ev)

StepConc(p) ==
  \/ \E ev \in ConcEvents(p) : TriggerOnce(p, ev)
  \/ \E pr \in ConcPullRequests(p) : PullsGetReturn(p, pr)
  \/ ListTagsReturn(p)
  \/ CreateReleaseCreated(p)
  \/ CreateReleaseOther(p)
  \/ ResultCommentReturn(p)
  \/ Reject(p)

NextConc == \E p \in Procs : StepConc(p)

SpecConc == Init /\ [][NextConc]_vars

(***************************************************************************)
(* Properties.  The notions the properties use are defined here on their   *)
(* own terms: a full release is a text "a.b.c" of three numerals, the RC   *)
(* identifier is the branch name with its first '/' turned into '-'.       *)
(***************************************************************************)
\* the largest number in a core version of a tag the properties speak of
MaxVersionNumber == 4

CoreNumbers == 0..MaxVersionNumber

Core(a, b, c) ==
  NumToString(a) \o <<".">> \o NumToString(b) \o <<".">> \o NumToString(c)

FullReleaseNames == {Core(a, b, c) : a, b, c \in CoreNumbers}

Contains(s, sub) ==
  \E i \in 0..(Len(s) - Len(sub)) : SubSeq(s, i + 1, i + Len(sub)) = sub

FirstSlash(branch) ==
  CHOOSE k \in 1..Len(branch) :
    branch[k] = "/" /\ \A j \in 1..(k - 1) : branch[j] /= "/"

RcIdentifier(branch) ==
  rcDash \o [i \in 1..Len(branch) |->
               IF i = FirstSlash(branch) THEN "-" ELSE branch[i]]

BumpKind(branch) ==
  IF StartsWith(branch, fixSlash) THEN "patch"
  ELSE IF StartsWith(branch, featureSlash) THEN "minor"
  ELSE IF StartsWith(branch, releaseSlash) THEN "major"
  ELSE IF StartsWith(branch, choreSlash) THEN "chore"
  ELSE "NotFound"

Incremented(a, b, c, kind) ==
  CASE kind = "major" -> Core(a + 1, 0, 0)
    [] kind = "minor" -> Core(a, b + 1, 0)
    [] kind = "patch" -> Core(a, b, c + 1)

\* the run has classified the head branch of its pull request
Classified(r) ==
  r.pr /= nullPr /\ r.pr.base.ref \in {master, main} /\ ~r.pr.draft

\* the run has resolved its tag and awaits the release sink
Resolved(r) == r.pc = "createRelease"

\* the tags of the list the run read that carry the branch's RC identifier
MatchingRcs(r) ==
  {i \in 1..Len(r.tags) :
     Contains(r.tags[i].name, RcIdentifier(r.pr.head.ref))}

Least(set) == CHOOSE i \in set : \A j \in set : i <= j

\* C1: classification yields the rule of the prefix the branch name starts
\* with (fix/ -> patch and 'fix', feature/ -> minor and 'feature',
\* release/ -> major and 'release', chore/ -> chore and 'chore'), and
\* NotFound for a name that starts with none of the four prefixes.
C1_Classification ==
  \A p \in Procs :
    LET r == runs[p]
        kind == BumpKind(r.pr.head.ref)
    IN Classified(r) =>
         IF kind = "NotFound" THEN r.pattern = undefined
         ELSE /\ r.pattern /= undefined
              /\ r.pattern.bump = kind
              /\ r.pattern.label =
                   (CASE kind = "patch" -> "fix"
                      [] kind = "minor" -> "feature"
                      [] kind = "major" -> "release"
                      [] kind = "chore" -> "chore")

C1_Witness ==
  /\ Classified(runs[1])
  /\ runs[1].pr.head.ref = releaseV1
  /\ runs[1].pattern /= undefined
  /\ runs[1].pattern.bump = "major"
  /\ runs[1].pattern.label = "release"

\* C2: the baseline is the name of the first tag, in list order, that is a
\* canonical full release "a.b.c"; it is '0.0.0' when the list has none.
C2_Baseline ==
  \A p \in Procs :
    LET r == runs[p]
        full == {i \in 1..Len(r.tags) : r.tags[i].name \in FullReleaseNames}
    IN Resolved(r) =>
         /\ r.tags = repoTags
         /\ r.lastTag = IF full = {} THEN zeroVersion
                        ELSE r.tags[Least(full)].name

C2_Witness ==
  /\ Resolved(runs[1])
  /\ runs[1].tags = <<Tag(rc200), Tag(v100), Tag(v123)>>
  /\ runs[1].lastTag = v100

\* C3: for a merged pull request the resolved tag is the baseline
\* incremented by the bump kind of the branch, with no pre-release suffix,
\* whatever RC tags the list holds; release/v1 on no tags gives 1.0.0.
C3_FinalIncrement ==
  \A p \in Procs :
    LET r == runs[p]
    IN Resolved(r) /\ ~r.preRelease =>
         /\ \E a, b, c \in CoreNumbers :
              /\ r.lastTag = Core(a, b, c)
              /\ r.newTag = Incremented(a, b, c, BumpKind(r.pr.head.ref))
         /\ r.tags = <<>> /\ r.pr.head.ref = releaseV1 => r.newTag = v100

C3_Witness ==
  /\ Resolved(runs[1])
  /\ ~runs[1].preRelease
  /\ runs[1].pr.head.ref = releaseV1
  /\ runs[1].tags = <<Tag(v130rcX0), Tag(v123)>>
  /\ runs[1].newTag = <<"2", ".", "0", ".", "0">>

\* C4: for a pre-release on a branch of which no tag carries the RC
\* identifier, the resolved tag is the incremented baseline, then '-',
\* then a pre-release component that contains the RC identifier.
C4_FirstRc ==
  \A p \in Procs :
    LET r == runs[p]
    IN Resolved(r) /\ r.preRelease /\ MatchingRcs(r) = {} =>
         \E a, b, c \in CoreNumbers :
           LET core == Incremented(a, b, c, BumpKind(r.pr.head.ref))
           IN /\ r.lastTag = Core(a, b, c)
              /\ StartsWith(r.newTag, core \o <<"-">>)
              /\ Contains(SubSeq(r.newTag, Len(core) + 2, Len(r.newTag)),
                          RcIdentifier(r.pr.head.ref))

C4_Witness ==
  /\ Resolved(runs[1])
  /\ runs[1].preRelease
  /\ runs[1].pr.head.ref = fixBug
  /\ runs[1].tags = <<Tag(v100)>>
  /\ runs[1].newTag = <<"1", ".", "0", ".", "1", "-">> \o rcFixBug
                        \o <<".", "0">>

\* C5: for a pre-release on a branch of which some tag carries the RC
\* identifier, the resolved tag is the first such tag with its pre-release
\* counter (the numeral after the last '.') incremented by one and
\* everything before it, the core version included, unchanged.
C5_ExistingRc ==
  \A p \in Procs :
    LET r == runs[p]
        rc == r.tags[Least(MatchingRcs(r))].name
    IN Resolved(r) /\ r.preRelease /\ MatchingRcs(r) /= {} =>
         \E k \in 1..Len(rc), n \in CoreNumbers :
           /\ \E a, b, c \in CoreNumbers :
                StartsWith(rc, Core(a, b, c) \o <<"-">>)
           /\ rc[k] = "."
           /\ SubSeq(rc, k + 1, Len(rc)) = NumToString(n)
           /\ r.newTag = SubSeq(rc, 1, k) \o NumToString(n + 1)

\* the pull request of a run: the one it validated, else the one of its
\* pull_request event
RunPr(r) == IF r.pr /= nullPr THEN r.pr ELSE r.event.pull_request

CallsOf(r, apis) == {i \in 1..Len(r.calls) : r.calls[i].api \in apis}

\* new is old with the numeral after its last '.' replaced by a greater one
RcAfter(old, new) ==
  \E k \in 1..Len(old), m, n \in 0..(MaxReleases + 1) :
    /\ old[k] = "."
    /\ SubSeq(old, k + 1, Len(old)) = NumToString(m)
    /\ new = SubSeq(old, 1, k) \o NumToString(n)
    /\ m < n

\* C6: over the '#tag' runs of a branch, each reading a tag list that holds
\* the tags of the earlier runs, every run resolves a tag with the core
\* version and identifier of the RC tags created before it for the branch
\* and a pre-release counter greater than each of theirs.
C6_RcIncreasing ==
  \A p \in Procs :
    LET r == runs[p]
    IN Resolved(r) /\ r.preRelease =>
         \A i \in 1..Len(releases) :
           /\ releases[i].prerelease
           /\ releases[i].target_commitish = r.pr.head.ref
           /\ releases[i].tag_name \in TagNames(r.tags)
           => RcAfter(releases[i].tag_name, r.newTag)

\* C7: a run for a pull request of a chore/ branch never calls listTags,
\* never resolves a tag and never calls createRelease.
C7_ChoreNoOp ==
  \A p \in Procs :
    LET r == runs[p]
    IN RunPr(r) /= nullPr /\ StartsWith(RunPr(r).head.ref, choreSlash) =>
         /\ CallsOf(r, {"listTags", "createRelease"}) = {}
         /\ r.newTag = <<>>
         /\ r.pc \notin {"listTags", "createRelease", "resultComment"}

C7_Witness ==
  /\ runs[1].pc = "done"
  /\ runs[1].event.eventName = "pull_request"
  /\ runs[1].event.action = "closed"
  /\ runs[1].pr /= nullPr
  /\ runs[1].pr.head.ref = choreDeps
  /\ runs[1].pr.merged
  /\ runs[1].pr.base.ref = master
  /\ ~runs[1].pr.draft
  /\ runs[1].calls = <<>>
  /\ runs[1].failed = <<>>

\* C8: a run for a pull request whose head branch starts with none of the
\* four prefixes never calls createRelease, whatever the event.
C8_UnclassifiedNoRelease ==
  \A p \in Procs :
    LET r == runs[p]
    IN RunPr(r) /= nullPr /\ BumpKind(RunPr(r).head.ref) = "NotFound" =>
         /\ CallsOf(r, {"createRelease"}) = {}
         /\ r.pc \notin {"createRelease", "resultComment"}
         /\ \A i \in 1..Len(releases) :
              releases[i].target_commitish /= RunPr(r).head.ref

C8_Witness ==
  /\ runs[1].pc = "done"
  /\ runs[1].event.eventName = "issue_comment"
  /\ runs[1].pr /= nullPr
  /\ runs[1].pr.head.ref = docsY
  /\ ~runs[1].pr.merged
  /\ runs[1].pr.base.ref = main
  /\ ~runs[1].pr.draft
  /\ CallsOf(runs[1], {"pulls.get"}) = {1}
  /\ Len(runs[1].calls) = 1
  /\ runs[1].failed = <<>>

\* C9: every createRelease call of a run for an issue_comment event asks
\* for a pre-release whose tag name carries the RC identifier of the
\* branch, also when the pull request is merged.
C9_CommentMakesRc ==
  \A p \in Procs :
    LET r == runs[p]
    IN r.event.eventName = "issue_comment" =>
         \A i \in CallsOf(r, {"createRelease"}) :
           /\ r.calls[i].prerelease
           /\ Contains(r.calls[i].tag_name, RcIdentifier(r.pr.head.ref))

\* C10: a run for a pull request whose base ref is neither master nor
\* main, or that is a draft, never calls createRelease.
C10_BaseAndDraftGate ==
  \A p \in Procs :
    LET r == runs[p]
    IN /\ RunPr(r) /= nullPr
       /\ RunPr(r).base.ref \notin {master, main} \/ RunPr(r).draft
       => /\ CallsOf(r, {"createRelease"}) = {}
          /\ r.pc \notin {"createRelease", "resultComment"}

C10_Witness ==
  /\ runs[1].pc = "done"
  /\ runs[1].event.eventName = "pull_request"
  /\ runs[1].event.action = "closed"
  /\ runs[1].pr /= nullPr
  /\ runs[1].pr.head.ref = featureX
  /\ runs[1].pr.merged
  /\ runs[1].pr.base.ref = develop
  /\ ~runs[1].pr.draft
  /\ runs[1].calls = <<>>
  /\ runs[1].failed = <<>>

\* the event gives the run no pull request: it is no pull_request event
\* and no created comment that holds '#tag'
NoPrEvent(ev) ==
  /\ ev /= noEvent
  /\ ev.eventName /= "pull_request"
  /\ ~(ev.eventName = "issue_comment" /\ ev.action = "created"
         /\ Contains(ev.body, hashTag))

\* the pull request the run validated meets a skip condition
SkipsPr(r) ==
  /\ r.pr /= nullPr
  /\ \/ BumpKind(r.pr.head.ref) \in {"NotFound", "chore"}
     \/ r.pr.base.ref \notin {master, main}
     \/ r.pr.draft

\* C11: a run in a skip condition (no pull request for the event, base ref
\* other than master/main, draft, unclassifiable branch, chore) has ended
\* without a reported failure and has made no listTags, createRelease or
\* createComment call.
C11_SkipIsSuccess ==
  \A p \in Procs :
    LET r == runs[p]
    IN NoPrEvent(r.event) \/ SkipsPr(r) =>
         /\ r.pc = "done"
         /\ r.failed = <<>>
         /\ CallsOf(r, {"listTags", "createRelease", "createComment"}) = {}
         /\ r.outputs = <<>>

C11_Witness ==
  /\ runs[1].pc = "done"
  /\ runs[1].event.eventName = "issue_comment"
  /\ runs[1].pr /= nullPr
  /\ runs[1].pr.head.ref = featureX
  /\ runs[1].pr.base.ref = master
  /\ runs[1].pr.draft
  /\ Len(runs[1].calls) = 1
  /\ runs[1].failed = <<>>

\* C12: when the release sink answers the createRelease call of a run for
\* a pull request of positive number without creating the release, the
\* run ends with one failure reported, no output set and no further call;
\* outputs are set and the result comment is posted only in the step in
\* which the release sink creates the release of the resolved tag.
C12_FailedCreateIsFatal ==
  [][\A p \in Procs :
       LET r == runs[p]
           r2 == runs'[p]
           created ==
             /\ Len(releases') = Len(releases) + 1
             /\ releases'[Len(releases')].tag_name = r.newTag
       IN /\ r.pc = "createRelease" /\ ~created /\ r.pr.number > 0 =>
               /\ r2.pc = "done"
               /\ Len(r2.failed) = 1
               /\ r2.outputs = <<>>
               /\ r2.calls = r.calls
          /\ r2.pc /= "idle" /\ r2.outputs /= r.outputs =>
               /\ created
               /\ r2.outputs = <<[name |-> "new_tag", value |-> r.newTag],
                                 [name |-> "pre_release",
                                  value |-> r.preRelease]>>
          /\ r2.pc = "resultComment" /\ r.pc /= "resultComment" => created
     ]_vars

C12_Witness ==
  /\ runs[1].pc = "done"
  /\ runs[1].pr /= nullPr
  /\ runs[1].pr.number > 0
  /\ CallsOf(runs[1], {"createRelease"}) = {Len(runs[1].calls)}
  /\ runs[1].failed = <<"Failed to create release">>
  /\ runs[1].outputs = <<>>
  /\ releases = <<>>

\* the run has resolved a tag
HasResolved(r) == r.pc \in {"createRelease", "resultComment", "done"}
                    /\ r.newTag /= <<>>

\* the tag the run resolves on a tag list
ResolveOn(tags, r) ==
  LET rcName == RcName(r.pr.head.ref)
  IN NewTag(LastTag(tags), rcName, Rcs(tags, rcName), r.preRelease, r.pattern)

\* the tag lists that show one more tag
WithTag(tags, name) ==
  IF name \in TagNames(tags) THEN {tags}
  ELSE {InsertAt(tags, i, Tag(name)) : i \in 1..(Len(tags) + 1)}

\* the runs resolve what they resolve when run p is executed, from the tag
\* list first, and run q after it
SerialOutcome(first, p, q) ==
  /\ runs[p].newTag = ResolveOn(first, runs[p])
  /\ \E tags \in WithTag(first, runs[p].newTag) \cup {first} :
       runs[q].newTag = ResolveOn(tags, runs[q])

\* C13: two runs at the same time for two different branches resolve
\* different tag names, and the tags they resolve are those of the one run
\* executed after the other, in one of the two orders.
C13_ConcurrentRaceFree ==
  LET first == IF Len(runs[1].tags) <= Len(runs[2].tags) THEN runs[1].tags
               ELSE runs[2].tags
  IN HasResolved(runs[1]) /\ HasResolved(runs[2]) =>
       /\ runs[1].newTag /= runs[2].newTag
       /\ SerialOutcome(first, 1, 2) \/ SerialOutcome(first, 2, 1)

\* C14: every createRelease call of a run carries the tag the run
\* resolved, the title and the body of the pull request, draft = false,
\* prerelease = the pull request is not merged, and as target the head ref
\* of the pull request when it is not merged and its base ref when it is.
C14_ReleaseRequestShape ==
  \A p \in Procs :
    LET r == runs[p]
    IN \A i \in CallsOf(r, {"createRelease"}) :
         /\ r.calls[i].tag_name = r.newTag
         /\ r.calls[i].name = r.pr.title
         /\ r.calls[i].body = r.pr.body
         /\ r.calls[i].draft = FALSE
         /\ r.calls[i].prerelease = ~r.pr.merged
         /\ r.calls[i].target_commitish =
              IF r.pr.merged THEN r.pr.base.ref ELSE r.pr.head.ref
         /\ CallsOf(r, {"createRelease"}) = {i}

C14_Witness ==
  /\ runs[1].pc = "createRelease"
  /\ ~runs[1].pr.merged
  /\ runs[1].pr.base.ref = main
  /\ runs[1].pr.head.ref = featureX
  /\ repoTags = <<Tag(v100)>>
  /\ runs[1].calls[Len(runs[1].calls)] =
       [api |-> "createRelease",
        tag_name |-> <<"1", ".", "1", ".", "0", "-">> \o rcFeatureX
                       \o <<".", "0">>,
        name |-> "title", body |-> "body", draft |-> FALSE,
        prerelease |-> TRUE, target_commitish |-> featureX]

LabelOf(kind) ==
  CASE kind = "patch" -> "fix"
    [] kind = "minor" -> "feature"
    [] kind = "major" -> "release"
    [] kind = "chore" -> "chore"

\* C15: a run for a pull_request 'opened' event has called addLabels
\* once, as its first call, with the one label of the branch's rule when
\* the head branch classifies (chore included) and never when it does not,
\* and it calls neither listTags nor createRelease; a run for a
\* pull_request event that is neither 'opened' nor 'closed' of a merged
\* pull request makes no call at all.
C15_LabelOnOpen ==
  \A p \in Procs :
    LET r == runs[p]
        pr == r.event.pull_request
        kind == BumpKind(pr.head.ref)
    IN r.event.eventName = "pull_request" =>
         IF r.event.action = "opened"
         THEN /\ CallsOf(r, {"addLabels"}) =
                   IF kind = "NotFound" THEN {} ELSE {1}
              /\ kind /= "NotFound" =>
                   /\ r.calls[1].labels = <<LabelOf(kind)>>
                   /\ r.calls[1].issue_number = pr.number
              /\ CallsOf(r, {"listTags", "createRelease"}) = {}
              /\ r.pc \notin {"listTags", "createRelease", "resultComment"}
              /\ r.newTag = <<>>
         ELSE ~(r.event.action = "closed" /\ pr.merged) =>
                r.calls = <<>> /\ r.pc = "done"

C15_Witness ==
  /\ runs[1].pc = "done"
  /\ runs[1].event.eventName = "pull_request"
  /\ runs[1].event.action = "opened"
  /\ runs[1].event.pull_request.head.ref = choreDeps
  /\ Len(runs[1].calls) = 2
  /\ runs[1].calls[1].api = "addLabels"
  /\ runs[1].calls[1].labels = <<"chore">>
  /\ runs[1].calls[2].api = "createComment"
  /\ runs[1].failed = <<>>

\* C16: the step in which an awaited call of a run raises an exception
\* reports the run's one failure and ends the run: the run makes no call
\* in or after that step, and the step leaves the releases and the tags
\* as they are, a release created earlier in the run included.
C16_ExceptionEndsRun ==
  [][\A p \in Procs :
       LET r == runs[p]
           r2 == runs'[p]
       IN /\ r2.pc /= "idle" /\ r2.failed /= r.failed =>
               /\ r.pc \in Awaiting
               /\ r.failed = <<>>
               /\ Len(r2.failed) = 1
               /\ r2.pc = "done"
               /\ r2.calls = r.calls
               /\ r2.outputs = r.outputs
               /\ releases' = releases
               /\ repoTags' = repoTags
          /\ r.failed /= <<>> =>
               /\ r.pc = "done"
               /\ r2 = r \/ r2 = IdleRun
               /\ releases' = releases
               /\ repoTags' = repoTags
     ]_vars

C16_Witness ==
  /\ runs[1].pc = "done"
  /\ runs[1].failed = <<"error.message">>
  /\ Len(runs[1].calls) = 4
  /\ runs[1].calls[3].api = "createRelease"
  /\ runs[1].calls[4].api = "createComment"
  /\ Len(releases) = 1
  /\ releases[1] = runs[1].calls[3]
  /\ runs[1].newTag \in TagNames(repoTags)

\* C17: the tag name of every createRelease call is not null and is a
\* semantic version: it reads as a version of the semver grammar.
C17_TagIsValidVersion ==
  \A p \in Procs :
    LET r == runs[p]
    IN \A i \in CallsOf(r, {"createRelease"}) :
         /\ r.calls[i].tag_name /= null
         /\ Matches(r.calls[i].tag_name)

\* name is an RC tag of the branch: a full release, '-', the RC identifier
\* of the branch, '.', a counter
IsRcOf(name, branch) ==
  LET k == IndexOf(name, <<"-">>)
      rest == SubSeq(name, k + 1, Len(name))
      id == RcIdentifier(branch) \o <<".">>
  IN /\ k > 0
     /\ SubSeq(name, 1, k - 1) \in FullReleaseNames
     /\ StartsWith(rest, id)
     /\ Len(rest) > Len(id)
     /\ AllIn(SubSeq(rest, Len(id) + 1, Len(rest)), Digits)

\* C18: a run for a '#tag' comment on a branch never takes the RC tag of
\* another branch as its current RC: the tag it resolves is no RC tag of
\* another branch.
C18_RcOfSameBranch ==
  \A p \in Procs :
    LET r == runs[p]
    IN Resolved(r) /\ r.preRelease /\ r.newTag /= null =>
         \A b \in ResolveBranches \ {r.pr.head.ref} : ~IsRcOf(r.newTag, b)

\* C19: the tag a run resolves is not the name of a tag of the list the
\* run read, whatever the order of the list, for final releases and for
\* pre-releases.
C19_ResolvedTagIsNew ==
  \A p \in Procs :
    LET r == runs[p]
    IN Resolved(r) => r.newTag \notin TagNames(r.tags)

\* the version a.b.c is greater than the version a0.b0.c0
CoreGreater(a, b, c, a0, b0, c0) ==
  \/ a > a0
  \/ a = a0 /\ b > b0
  \/ a = a0 /\ b = b0 /\ c > c0

\* C20: the core version of every pre-release tag a run resolves is
\* greater than the baseline of the tag list the run read: the first full
\* release of the list, or 0.0.0.
C20_RcAboveBaseline ==
  \A p \in Procs :
    LET r == runs[p]
        full == {i \in 1..Len(r.tags) : r.tags[i].name \in FullReleaseNames}
        baseline == IF full = {} THEN zeroVersion
                    ELSE r.tags[Least(full)].name
    IN Resolved(r) /\ r.preRelease =>
         \A a, b, c \in 0..(MaxVersionNumber + 1), a0, b0, c0 \in CoreNumbers :
           /\ StartsWith(r.newTag, Core(a, b, c) \o <<"-">>)
           /\ baseline = Core(a0, b0, c0)
           => CoreGreater(a, b, c, a0, b0, c0)

====
